---- MODULE Spec2Model ----
(***************************************************************************)
(* The HeyGen dashboard connector (heygen_dashboard_connector.py): a       *)
(* background thread that periodically fetches, transforms and renders a   *)
(* dashboard into the global dashboard_html under dashboard_html_lock, and *)
(* the main thread, which writes the start-up placeholder, starts the      *)
(* refresh thread and then serves GET requests from an HTTPServer, one     *)
(* request at a time.                                                      *)
(***************************************************************************)
EXTENDS Integers, Sequences, FiniteSets

\* ------------------------------------------------------------------ bounds
\* Number of refresh cycles the model lets the refresh loop start.
MaxCycles == 2
\* Number of client connections the model lets arrive.
MaxRequests == 2

\* ------------------------------------------------------- program constants
refresh_interval_seconds == 300
monthly_quota == 1000

\* -------------------------------------------------------------- data model
\* Python's None, and the marker of a key that a JSON object does not hold.
None == "<None>"
Absent == "<absent>"

\* One element of the JSON array the API answers with. dict = FALSE is an
\* element that is no JSON object (v.get raises AttributeError on it).
RawVideo(st) == [dict |-> TRUE, status |-> st]
NonDictItem == [dict |-> FALSE, status |-> Absent]

\* A Python list-or-None value: iterable = FALSE stands for None.
PyList(items) == [iterable |-> TRUE, items |-> items]
PyNone == [iterable |-> FALSE, items |-> <<>>]

\* What the HTTP exchange of fetch_videos can end in.
\*   network_error : requests.get raises
\*   http_error    : raise_for_status raises
\*   bad_json      : response.json raises
\*   dict_videos   : a JSON object holding 'videos' (here: null, or an array)
\*   list          : a JSON array
\*   other         : any other JSON value
ApiResponse(k, v) == [kind |-> k, videos |-> v]
ApiResponses ==
    { ApiResponse(k, PyNone) : k \in {"network_error", "http_error", "bad_json", "other"} }
    \cup { ApiResponse("dict_videos", PyNone),
           ApiResponse("dict_videos", PyList(<<RawVideo("completed")>>)),
           ApiResponse("list", PyList(<<RawVideo("Processing"), RawVideo(Absent)>>)),
           ApiResponse("list", PyList(<<RawVideo(None)>>)),
           ApiResponse("list", PyList(<<NonDictItem>>)) }

FetchErrorKinds == {"network_error", "http_error", "bad_json"}

\* fetch_videos: every exception is caught inside the function, which then
\* returns the empty list.
fetch_videos(resp) ==
    IF resp.kind \in FetchErrorKinds THEN PyList(<<>>)
    ELSE IF resp.kind = "dict_videos" THEN resp.videos
    ELSE IF resp.kind = "list" THEN resp.videos
    ELSE PyList(<<>>)

\* transform_video_data raises when api_videos is not iterable or an element
\* has no .get method.
TransformRaises(av) ==
    \/ ~av.iterable
    \/ \E i \in 1..Len(av.items) : ~av.items[i].dict

\* Only the status field decides anything downstream; the other fields are
\* copied with their defaults and are not modelled.
VideoStatus(v) == [status |-> IF v.status = Absent THEN "unknown" ELSE v.status]

transform_video_data(av) == [i \in 1..Len(av.items) |-> VideoStatus(av.items[i])]

CountStatus(vs, st) == Cardinality({i \in 1..Len(vs) : vs[i].status = st})

Max(a, b) == IF a >= b THEN a ELSE b

\* usage_percentage is kept in hundredths of a percent: round(total / quota * 100, 2).
compute_api_usage_stats(vs) ==
    [total_videos |-> Len(vs),
     completed_videos |-> CountStatus(vs, "completed"),
     processing_videos |-> CountStatus(vs, "processing"),
     failed_videos |-> CountStatus(vs, "failed"),
     monthly_quota |-> monthly_quota,
     remaining_quota |-> Max(monthly_quota - Len(vs), 0),
     usage_percentage |-> (Len(vs) * 10000) \div monthly_quota]

ZeroUsage ==
    [total_videos |-> 0, completed_videos |-> 0, processing_videos |-> 0,
     failed_videos |-> 0, monthly_quota |-> 0, remaining_quota |-> 0,
     usage_percentage |-> 0]

\* A Python str. A literal is its text; the generated dashboard is its first
\* line together with the values interpolated into it.
Literal(t) ==
    [text |-> t, refresh |-> 0, last_updated |-> 0, api_usage |-> ZeroUsage, rows |-> <<>>]

EmptyStr == Literal("")
StartupPlaceholder ==
    Literal("<html><body><h1>Loading dashboard data, please wait...</h1></body></html>")
HandlerPlaceholder == Literal("<html><body><h1>Loading dashboard...</h1></body></html>")
NotFoundText == Literal("404 Not Found")

\* str.lower on the status values of the model.
Lower(s) ==
    IF s = "Processing" THEN "processing"
    ELSE IF s = "Completed" THEN "completed"
    ELSE IF s = "Failed" THEN "failed"
    ELSE s

\* generate_dashboard_html raises when a status is None (None has no .lower).
RenderRaises(vs) == \E i \in 1..Len(vs) : vs[i].status = None

StatusClass(st) ==
    IF Lower(st) = "completed" THEN "status-completed"
    ELSE IF Lower(st) = "processing" THEN "status-processing"
    ELSE IF Lower(st) = "failed" THEN "status-failed"
    ELSE ""

generate_dashboard_html(dashboard_data) ==
    [text |-> "<!DOCTYPE html>",
     refresh |-> refresh_interval_seconds,
     last_updated |-> dashboard_data.last_updated,
     api_usage |-> dashboard_data.api_usage,
     rows |-> [i \in 1..Len(dashboard_data.videos) |->
                 [status_class |-> StatusClass(dashboard_data.videos[i].status),
                  status |-> dashboard_data.videos[i].status]]]

\* Python's `a or b` on strings: the empty string is falsy.
PyOr(a, b) == IF a = EmptyStr THEN b ELSE a

\* str.encode("utf-8"): the bytes of a string. The strings of the model hold
\* no lone surrogate, the one thing encode raises on.
encode(s) == [utf8 |-> s]
NoBytes == encode(EmptyStr)

\* A Python value of the runner: a tag and, for a string, its text.
PyValue(t, v) == [type |-> t, value |-> v]
NoneValue == PyValue("NoneType", "")

\* A dict that run_all_tests may return, as far as the runner looks at it:
\* whether it has the key 'success', and the value under it.
ResultDict(has, v) == [has_success |-> has, success |-> v]
NoResults == ResultDict(FALSE, NoneValue)

\* Python's truth value of an object: None, False, 0, "" and [] are false.
Truthy(v) ==
    CASE v.type = "NoneType" -> FALSE
      [] v.type = "bool" -> v.value = "True"
      [] v.type = "int" -> v.value # "0"
      [] v.type = "str" -> v.value # ""
      [] v.type = "list" -> v.value # "[]"

\* What os.getenv can return for a variable: None when it is unset, else
\* its text, which can be empty.
EnvValues ==
    { NoneValue, PyValue("str", ""), PyValue("str", "https://proxy.example"),
      PyValue("str", "secret") }

\* The dicts the test suite may hand back.
TestResults ==
    { ResultDict(TRUE, PyValue("bool", "True")),
      ResultDict(TRUE, PyValue("bool", "False")),
      ResultDict(TRUE, PyValue("int", "1")),
      ResultDict(TRUE, PyValue("int", "0")),
      ResultDict(TRUE, PyValue("str", "ok")),
      ResultDict(TRUE, PyValue("str", "")),
      ResultDict(TRUE, PyValue("list", "[]")),
      ResultDict(TRUE, PyValue("list", "['t1']")),
      ResultDict(TRUE, NoneValue),
      NoResults }

\* A line group on the runner's standard output.
Output(kind, result) == [kind |-> kind, result |-> result]

\* ------------------------------------------------------------------- state
Requests == 1..MaxRequests
Paths == {"/", "/index.html", "/index.htm"}

NoResponse == [status |-> 0, content_type |-> "", body |-> NoBytes]

VARIABLES
    dashboard_html,        \* the global holding the latest dashboard
    dashboard_html_lock,   \* "free", or the thread holding it: "main", "refresh"
    main_pc,               \* position of the main thread (start-up, then the server loop)
    refresh_pc,            \* position of the refresh thread
    now,                   \* the clock, in seconds
    api_videos, videos, api_usage, last_updated, new_html,  \* locals of the refresh loop
    req_state,             \* per connection: "idle", "pending", "handling", "done"
    req_path,              \* per connection: the request path
    current,               \* the connection the server is handling, 0 when none
    content,               \* local of do_GET
    response,              \* per connection: what the handler has sent so far
    \* history variables, read by the properties only
    cycle,                 \* number of refresh cycles started
    fetch_failed,          \* the running cycle's fetch ended in an exception
    raised,                \* the running cycle raised out of the try block
    cache_at_cycle_start,  \* dashboard_html when the running cycle started
    published,             \* the artifacts the refresh loop has published, in order
    last_good,             \* what the last cycle with a successful fetch published
    good_cycles,           \* number of cycles that published after a successful fetch
    reads,                 \* per connection: number of reads of dashboard_html
    read_at,               \* per connection: Len(published) when it read
    remote_silent,         \* the remote side will never answer the running fetch
    sleeps,                \* number of interval sleeps completed
    cycle_starts,          \* per cycle started: the time and the sleeps completed then
    publish_times,         \* the time of each publish, in order
    fetch_calls,           \* number of GET requests sent to the API
    fetched_in,            \* the cycle in which api_videos was last assigned
    rendered_in,           \* the cycle in which new_html was last assigned
    released,              \* number of publishes whose with block has been left
    begin_released,        \* `released` when the running handler went for its read
    threads_started,       \* number of refresh threads started
    \* the proxy test runner (heygen_proxy_test_runner.py), a program of its own
    runner_pc,             \* "off" while the connector is the program that runs
    PROXY_URL, PROXY_API_KEY,  \* the environment, as os.getenv returns it
    test_results,          \* what run_all_tests returned
    tests_run,             \* number of calls of run_all_tests
    printed,               \* what the runner has printed, in order
    exit_code              \* the exit status, -1 while the runner has not exited

locals == <<api_videos, videos, api_usage, last_updated, new_html>>
server_vars == <<req_state, req_path, current, content, response, reads, read_at>>
history == <<cycle, fetch_failed, raised, cache_at_cycle_start, published, last_good, good_cycles>>
trace == <<sleeps, cycle_starts, publish_times, fetch_calls, fetched_in, rendered_in,
           released, begin_released, threads_started>>
runner_vars == <<runner_pc, PROXY_URL, PROXY_API_KEY, test_results, tests_run, printed,
                 exit_code>>
vars == <<dashboard_html, dashboard_html_lock, main_pc, refresh_pc, now, locals,
          server_vars, history, remote_silent, trace, runner_vars>>

\* The connector after its module has been loaded, before the __main__ block runs.
ConnectorInit ==
    /\ dashboard_html = EmptyStr
    /\ dashboard_html_lock = "free"
    /\ main_pc = "init"
    /\ refresh_pc = "unstarted"
    /\ now = 0
    /\ api_videos = PyList(<<>>)
    /\ videos = <<>>
    /\ api_usage = ZeroUsage
    /\ last_updated = 0
    /\ new_html = EmptyStr
    /\ req_state = [r \in Requests |-> "idle"]
    /\ req_path = [r \in Requests |-> "/"]
    /\ current = 0
    /\ content = EmptyStr
    /\ response = [r \in Requests |-> NoResponse]
    /\ cycle = 0
    /\ fetch_failed = FALSE
    /\ raised = FALSE
    /\ cache_at_cycle_start = EmptyStr
    /\ published = <<>>
    /\ last_good = EmptyStr
    /\ good_cycles = 0
    /\ reads = [r \in Requests |-> 0]
    /\ read_at = [r \in Requests |-> 0]
    /\ remote_silent = FALSE
    /\ sleeps = 0
    /\ cycle_starts = <<>>
    /\ publish_times = <<>>
    /\ fetch_calls = 0
    /\ fetched_in = 0
    /\ rendered_in = 0
    /\ released = 0
    /\ begin_released = 0
    /\ threads_started = 0

\* The runner is not the program that runs.
RunnerOff ==
    /\ runner_pc = "off"
    /\ PROXY_URL = NoneValue
    /\ PROXY_API_KEY = NoneValue
    /\ test_results = NoResults
    /\ tests_run = 0
    /\ printed = <<>>
    /\ exit_code = -1

Init == ConnectorInit /\ RunnerOff

\* ------------------------------------------------------------ main thread
\* with dashboard_html_lock: dashboard_html = "<html>...please wait...</html>"
\* No other thread exists yet, so the block is one step.
MainWritePlaceholder ==
    /\ main_pc = "init"
    /\ dashboard_html_lock = "free"
    /\ dashboard_html' = StartupPlaceholder
    /\ main_pc' = "start_thread"
    /\ UNCHANGED <<dashboard_html_lock, refresh_pc, now, locals, server_vars, history,
                   remote_silent, trace, runner_vars>>

\* refresh_thread.start()
MainStartThread ==
    /\ main_pc = "start_thread"
    /\ refresh_pc' = "fetch"
    /\ threads_started' = threads_started + 1
    /\ main_pc' = "run_server"
    /\ UNCHANGED <<dashboard_html, dashboard_html_lock, now, locals, server_vars, history,
                   remote_silent, sleeps, cycle_starts, publish_times, fetch_calls, fetched_in, rendered_in, released, begin_released, runner_vars>>

\* run_server(): HTTPServer(...) binds and listens, serve_forever() starts.
MainRunServer ==
    /\ main_pc = "run_server"
    /\ main_pc' = "accept"
    /\ UNCHANGED <<dashboard_html, dashboard_html_lock, refresh_pc, now, locals,
                   server_vars, history,
                   remote_silent, trace, runner_vars>>

\* --------------------------------------------------------- refresh thread
\* Variant: the lock is taken at the top of the try block, around the fetch.
RefreshFetchCall_HoldingLock ==
    /\ refresh_pc = "fetch"
    /\ cycle < MaxCycles
    /\ dashboard_html_lock = "free"
    /\ dashboard_html_lock' = "refresh"
    /\ refresh_pc' = "fetching"
    /\ cycle' = cycle + 1
    /\ fetch_failed' = FALSE
    /\ raised' = FALSE
    /\ cache_at_cycle_start' = dashboard_html
    /\ fetch_calls' = fetch_calls + 1
    /\ cycle_starts' = Append(cycle_starts, [at |-> now, sleeps |-> sleeps])
    /\ \E silent \in BOOLEAN : remote_silent' = silent
    /\ UNCHANGED <<dashboard_html, main_pc, now, locals, server_vars,
                   published, last_good, good_cycles,
                   sleeps, publish_times, fetched_in, rendered_in, released, begin_released, threads_started, runner_vars>>

\* The loop enters the try block and calls fetch_videos, which sends the GET.
RefreshFetchCall ==
    /\ refresh_pc = "fetch"
    /\ cycle < MaxCycles
    /\ refresh_pc' = "fetching"
    /\ cycle' = cycle + 1
    /\ fetch_failed' = FALSE
    /\ raised' = FALSE
    /\ cache_at_cycle_start' = dashboard_html
    /\ fetch_calls' = fetch_calls + 1
    /\ cycle_starts' = Append(cycle_starts, [at |-> now, sleeps |-> sleeps])
    /\ \E silent \in BOOLEAN : remote_silent' = silent
    /\ UNCHANGED <<dashboard_html, dashboard_html_lock, main_pc, now, locals, server_vars,
                   published, last_good, good_cycles,
                   sleeps, publish_times, fetched_in, rendered_in, released, begin_released, threads_started, runner_vars>>

\* Variant: fetch_videos sends the GET a second time when the first attempt
\* ended in an exception.
FetchReturn_Retries(responses) ==
    /\ refresh_pc = "fetching"
    /\ ~remote_silent
    /\ \E resp \in responses :
         IF resp.kind \in FetchErrorKinds /\ fetch_calls = cycle
           THEN /\ fetch_calls' = fetch_calls + 1
                /\ UNCHANGED <<refresh_pc, api_videos, fetch_failed, fetched_in>>
           ELSE /\ api_videos' = fetch_videos(resp)
                /\ fetch_failed' = (resp.kind \in FetchErrorKinds)
                /\ fetched_in' = cycle
                /\ refresh_pc' = "transform"
                /\ UNCHANGED fetch_calls
    /\ UNCHANGED <<dashboard_html, dashboard_html_lock, main_pc, now, videos, api_usage,
                   last_updated, new_html, server_vars, cycle, raised,
                   cache_at_cycle_start, published, last_good, good_cycles,
                   remote_silent, sleeps, cycle_starts, publish_times, rendered_in,
                   released, begin_released, threads_started, runner_vars>>

\* fetch_videos returns, the exchange having ended in one of `responses`. The
\* call has no timeout: while the remote side is silent the thread stays at
\* "fetching".
FetchReturn(responses) ==
    /\ refresh_pc = "fetching"
    /\ ~remote_silent
    /\ fetched_in' = cycle
    /\ \E resp \in responses :
         /\ api_videos' = fetch_videos(resp)
         /\ fetch_failed' = (resp.kind \in FetchErrorKinds)
    /\ refresh_pc' = "transform"
    /\ UNCHANGED <<dashboard_html, dashboard_html_lock, main_pc, now, videos, api_usage,
                   last_updated, new_html, server_vars, cycle, raised,
                   cache_at_cycle_start, published, last_good, good_cycles,
                   remote_silent, sleeps, cycle_starts, publish_times, fetch_calls, rendered_in, released, begin_released, threads_started, runner_vars>>

RefreshFetchReturn == FetchReturn(ApiResponses)

\* videos = transform_video_data(api_videos)
RefreshTransform ==
    /\ refresh_pc = "transform"
    /\ IF TransformRaises(api_videos)
         THEN /\ refresh_pc' = "except"
              /\ raised' = TRUE
              /\ UNCHANGED videos
         ELSE /\ refresh_pc' = "stats"
              /\ videos' = transform_video_data(api_videos)
              /\ UNCHANGED raised
    /\ UNCHANGED <<dashboard_html, dashboard_html_lock, main_pc, now, api_videos, api_usage,
                   last_updated, new_html, server_vars, cycle, fetch_failed,
                   cache_at_cycle_start, published, last_good, good_cycles,
                   remote_silent, trace, runner_vars>>

\* api_usage = compute_api_usage_stats(videos); last_updated = utcnow()
RefreshStats ==
    /\ refresh_pc = "stats"
    /\ api_usage' = compute_api_usage_stats(videos)
    /\ last_updated' = now
    /\ refresh_pc' = "render"
    /\ UNCHANGED <<dashboard_html, dashboard_html_lock, main_pc, now, api_videos, videos,
                   new_html, server_vars, history,
                   remote_silent, trace, runner_vars>>

\* new_html = generate_dashboard_html(dashboard_data)
RefreshRender ==
    /\ refresh_pc = "render"
    /\ IF RenderRaises(videos)
         THEN /\ refresh_pc' = "except"
              /\ raised' = TRUE
              /\ UNCHANGED <<new_html, rendered_in>>
         ELSE /\ refresh_pc' = "acquire"
              /\ new_html' = generate_dashboard_html(
                     [videos |-> videos, api_usage |-> api_usage,
                      last_updated |-> last_updated])
              /\ rendered_in' = cycle
              /\ UNCHANGED raised
    /\ UNCHANGED <<dashboard_html, dashboard_html_lock, main_pc, now, api_videos, videos,
                   api_usage, last_updated, server_vars, cycle, fetch_failed,
                   cache_at_cycle_start, published, last_good, good_cycles,
                   remote_silent, sleeps, cycle_starts, publish_times, fetch_calls, fetched_in, released, begin_released, threads_started, runner_vars>>

\* with dashboard_html_lock: (entry)
RefreshAcquire ==
    /\ refresh_pc = "acquire"
    /\ dashboard_html_lock = "free"
    /\ dashboard_html_lock' = "refresh"
    /\ refresh_pc' = "assign"
    /\ UNCHANGED <<dashboard_html, main_pc, now, locals, server_vars, history,
                   remote_silent, trace, runner_vars>>

\* Variant: only the first dashboard is stored; later ones are dropped.
Store_KeepsFirst(old, new) == IF old = StartupPlaceholder THEN new ELSE old

\* Variant: a dashboard without videos is stored as the empty string.
Store_EmptyWhenNoRows(old, new) == IF new.rows = <<>> THEN EmptyStr ELSE new

\* Variant: the store is not one assignment; the rows of the old value stay.
Store_Torn(old, new) == [new EXCEPT !.rows = old.rows]

\* The value the assignment leaves in the global.
Store(old, new) == new

\* dashboard_html = new_html
RefreshAssign ==
    /\ refresh_pc = "assign"
    /\ dashboard_html' = Store(dashboard_html, new_html)
    /\ published' = Append(published, new_html)
    /\ publish_times' = Append(publish_times, now)
    /\ last_good' = IF fetch_failed THEN last_good ELSE new_html
    /\ good_cycles' = IF fetch_failed THEN good_cycles ELSE good_cycles + 1
    /\ refresh_pc' = "release"
    /\ UNCHANGED <<dashboard_html_lock, main_pc, now, locals, server_vars, cycle,
                   fetch_failed, raised, cache_at_cycle_start,
                   remote_silent, sleeps, cycle_starts, fetch_calls, fetched_in, rendered_in, released, begin_released, threads_started, runner_vars>>

\* Variant: the lock is acquired without a with block and never released.
RefreshRelease_KeepsLock ==
    /\ refresh_pc = "release"
    /\ refresh_pc' = "log"
    /\ UNCHANGED <<dashboard_html, dashboard_html_lock, main_pc, now, locals, server_vars,
                   history,
                   remote_silent, trace, runner_vars>>

\* with dashboard_html_lock: (exit)
RefreshRelease ==
    /\ refresh_pc = "release"
    /\ dashboard_html_lock' = "free"
    /\ released' = released + 1
    /\ refresh_pc' = "log"
    /\ UNCHANGED <<dashboard_html, main_pc, now, locals, server_vars, history,
                   remote_silent, sleeps, cycle_starts, publish_times, fetch_calls, fetched_in, rendered_in, begin_released, threads_started, runner_vars>>

\* print("... Dashboard refreshed successfully.")
RefreshLog ==
    /\ refresh_pc = "log"
    /\ refresh_pc' = "sleep"
    /\ UNCHANGED <<dashboard_html, dashboard_html_lock, main_pc, now, locals, server_vars,
                   history,
                   remote_silent, trace, runner_vars>>

\* Variant: there is no except clause; the exception ends the thread.
RefreshExcept_EndsThread ==
    /\ refresh_pc = "except"
    /\ refresh_pc' = "dead"
    /\ UNCHANGED <<dashboard_html, dashboard_html_lock, main_pc, now, locals, server_vars,
                   history, remote_silent, trace, runner_vars>>

\* Variant: the except clause ends in `continue`, so the sleep is skipped.
RefreshExcept_SkipsSleep ==
    /\ refresh_pc = "except"
    /\ refresh_pc' = "fetch"
    /\ UNCHANGED <<dashboard_html, dashboard_html_lock, main_pc, now, locals, server_vars,
                   history, remote_silent, trace, runner_vars>>

\* Variant: the except clause blanks the dashboard.
RefreshExcept_ClearsCache ==
    /\ refresh_pc = "except"
    /\ dashboard_html' = EmptyStr
    /\ refresh_pc' = "sleep"
    /\ UNCHANGED <<dashboard_html_lock, main_pc, now, locals, server_vars, history,
                   remote_silent, trace, runner_vars>>

\* except Exception as e: print("Error during dashboard refresh: ...")
RefreshExcept ==
    /\ refresh_pc = "except"
    /\ refresh_pc' = "sleep"
    /\ UNCHANGED <<dashboard_html, dashboard_html_lock, main_pc, now, locals, server_vars,
                   history,
                   remote_silent, trace, runner_vars>>

\* time.sleep(refresh_interval_seconds), then the next iteration of while True
RefreshSleep ==
    /\ refresh_pc = "sleep"
    /\ now' = now + refresh_interval_seconds
    /\ sleeps' = sleeps + 1
    /\ refresh_pc' = "fetch"
    /\ UNCHANGED <<dashboard_html, dashboard_html_lock, main_pc, locals, server_vars,
                   history,
                   remote_silent, cycle_starts, publish_times, fetch_calls, fetched_in, rendered_in, released, begin_released, threads_started, runner_vars>>

\* ------------------------------------------------- server (main thread)
\* Variant: the second alternative of the path test is missing.
IsRootPath_SlashOnly(p) == p = "/"

\* self.path == "/" or self.path == "/index.html"
IsRootPath(p) == p = "/" \/ p = "/index.html"

\* A client connects; the kernel queues the connection until the server
\* accepts it. Connections are numbered in the order they arrive.
Connect(paths) ==
    /\ main_pc \notin {"init", "start_thread", "run_server"}
    /\ \E r \in Requests, p \in paths :
         /\ req_state[r] = "idle"
         /\ \A q \in Requests : q < r => req_state[q] # "idle"
         /\ req_state' = [req_state EXCEPT ![r] = "pending"]
         /\ req_path' = [req_path EXCEPT ![r] = p]
    /\ UNCHANGED <<dashboard_html, dashboard_html_lock, main_pc, refresh_pc, now, locals,
                   current, content, response, reads, read_at, history,
                   remote_silent, trace, runner_vars>>

ClientConnect == Connect(Paths)

\* The server can take connection r now: HTTPServer handles a request inside
\* serve_forever, on the thread that accepts, and accepts the oldest first.
CanDispatch(r) ==
    /\ main_pc = "accept"
    /\ req_state[r] = "pending"
    /\ \A q \in Requests : q < r => req_state[q] # "pending"

\* serve_forever accepts a connection and calls the handler's do_GET.
ServerAccept ==
    /\ \E r \in Requests :
         /\ CanDispatch(r)
         /\ current' = r
         /\ req_state' = [req_state EXCEPT ![r] = "handling"]
    /\ main_pc' = "route"
    /\ UNCHANGED <<dashboard_html, dashboard_html_lock, refresh_pc, now, locals, req_path,
                   content, response, reads, read_at, history,
                   remote_silent, trace, runner_vars>>

\* if self.path == "/" or self.path == "/index.html": ... else: ...
DoGetRoute ==
    /\ main_pc = "route"
    /\ begin_released' = IF IsRootPath(req_path[current]) THEN released ELSE 0
    /\ main_pc' = IF IsRootPath(req_path[current]) THEN "acquire" ELSE "send_headers"
    /\ UNCHANGED <<dashboard_html, dashboard_html_lock, refresh_pc, now, locals,
                   server_vars, history,
                   remote_silent, sleeps, cycle_starts, publish_times, fetch_calls, fetched_in, rendered_in, released, threads_started, runner_vars>>

\* with dashboard_html_lock: (entry)
DoGetAcquire ==
    /\ main_pc = "acquire"
    /\ dashboard_html_lock = "free"
    /\ dashboard_html_lock' = "main"
    /\ main_pc' = "read"
    /\ UNCHANGED <<dashboard_html, refresh_pc, now, locals, server_vars, history,
                   remote_silent, trace, runner_vars>>

\* Variant: the handler stores the document it serves back into the global.
DoGetRead_WritesCache ==
    /\ main_pc = "read"
    /\ content' = PyOr(dashboard_html, HandlerPlaceholder)
    /\ dashboard_html' = HandlerPlaceholder
    /\ reads' = [reads EXCEPT ![current] = @ + 1]
    /\ read_at' = [read_at EXCEPT ![current] = Len(published)]
    /\ main_pc' = "release"
    /\ UNCHANGED <<dashboard_html_lock, refresh_pc, now, locals, req_state,
                   req_path, current, response, history,
                   remote_silent, trace, runner_vars>>

\* content = dashboard_html or "<html>...Loading dashboard...</html>"
DoGetRead ==
    /\ main_pc = "read"
    /\ content' = PyOr(dashboard_html, HandlerPlaceholder)
    /\ reads' = [reads EXCEPT ![current] = @ + 1]
    /\ read_at' = [read_at EXCEPT ![current] = Len(published)]
    /\ main_pc' = "release"
    /\ UNCHANGED <<dashboard_html, dashboard_html_lock, refresh_pc, now, locals, req_state,
                   req_path, current, response, history,
                   remote_silent, trace, runner_vars>>

\* Variant: the response is sent inside the with block.
DoGetRelease_KeepsLock ==
    /\ main_pc = "release"
    /\ main_pc' = "send_headers"
    /\ UNCHANGED <<dashboard_html, dashboard_html_lock, refresh_pc, now, locals,
                   server_vars, history,
                   remote_silent, trace, runner_vars>>

\* with dashboard_html_lock: (exit)
DoGetRelease ==
    /\ main_pc = "release"
    /\ dashboard_html_lock' = "free"
    /\ begin_released' = 0
    /\ main_pc' = "send_headers"
    /\ UNCHANGED <<dashboard_html, refresh_pc, now, locals, server_vars, history,
                   remote_silent, sleeps, cycle_starts, publish_times, fetch_calls,
                   fetched_in, rendered_in, released, threads_started, runner_vars>>

\* self.send_response(...); self.send_header("Content-type", ...);
\* self.end_headers(): the status line and the header are buffered and leave
\* in one write when end_headers flushes them.
DoGetSendHeaders ==
    /\ main_pc = "send_headers"
    /\ response' = [response EXCEPT
                      ![current].status =
                          IF IsRootPath(req_path[current]) THEN 200 ELSE 404,
                      ![current].content_type =
                          IF IsRootPath(req_path[current])
                            THEN "text/html; charset=utf-8"
                            ELSE "text/plain; charset=utf-8"]
    /\ main_pc' = "write"
    /\ UNCHANGED <<dashboard_html, dashboard_html_lock, refresh_pc, now, locals, req_state,
                   req_path, current, content, reads, read_at, history,
                   remote_silent, trace, runner_vars>>

\* self.wfile.write(...): the body goes out, do_GET returns and the server
\* goes back to accepting.
DoGetWrite ==
    /\ main_pc = "write"
    /\ response' = [response EXCEPT ![current].body =
                      IF IsRootPath(req_path[current])
                        THEN encode(content)
                        ELSE encode(NotFoundText)]
    /\ req_state' = [req_state EXCEPT ![current] = "done"]
    /\ current' = 0
    /\ content' = EmptyStr
    /\ main_pc' = "accept"
    /\ UNCHANGED <<dashboard_html, dashboard_html_lock, refresh_pc, now, locals, req_path,
                   reads, read_at, history,
                   remote_silent, trace, runner_vars>>

\* ------------------------------------------------------------ specification
MainThread ==
    \/ MainWritePlaceholder \/ MainStartThread \/ MainRunServer
    \/ ServerAccept \/ DoGetRoute \/ DoGetAcquire \/ DoGetRead \/ DoGetRelease
    \/ DoGetSendHeaders \/ DoGetWrite

RefreshSteps ==
    \/ RefreshFetchCall \/ RefreshTransform \/ RefreshStats
    \/ RefreshRender \/ RefreshAcquire \/ RefreshAssign \/ RefreshRelease
    \/ RefreshLog \/ RefreshExcept \/ RefreshSleep

Next == MainThread \/ RefreshSteps \/ RefreshFetchReturn \/ ClientConnect

Spec == Init /\ [][Next]_vars

\* The specification of the progress properties. Progress of a handler does
\* not depend on what a dashboard holds, so the inputs are one API response
\* for each way a cycle can go (fetch error, publish, transform raises,
\* render raises) and one path for each branch of do_GET.
LiveApiResponses ==
    { ApiResponse("network_error", PyNone),
      ApiResponse("dict_videos", PyList(<<RawVideo("completed")>>)),
      ApiResponse("dict_videos", PyNone),
      ApiResponse("list", PyList(<<RawVideo(None)>>)) }

LivePaths == {"/", "/index.htm"}

LiveFetchReturn == FetchReturn(LiveApiResponses)

LiveClientConnect == Connect(LivePaths)

LiveNext == MainThread \/ RefreshSteps \/ LiveFetchReturn \/ LiveClientConnect

\* The server thread's steps run whenever they can, and a thread that waits
\* for the lock gets it once it is released often enough; the refresh thread
\* finishes the two steps it takes while holding the lock. Nothing is assumed
\* of the remote API: a fetch may never return.
LiveSpec ==
    /\ Init
    /\ [][LiveNext]_vars
    /\ WF_vars(DoGetRoute)
    /\ SF_vars(DoGetAcquire)
    /\ WF_vars(DoGetRead)
    /\ WF_vars(DoGetRelease)
    /\ WF_vars(DoGetSendHeaders)
    /\ WF_vars(DoGetWrite)
    /\ WF_vars(RefreshAssign)
    /\ WF_vars(RefreshRelease)

\* The specification of the refresh loop's progress: the refresh thread takes
\* every step of its own that it can take, gets the lock once it is released
\* often enough, and the main thread leaves its with block. Nothing is
\* assumed of the remote API.
LoopLiveSpec ==
    /\ Init
    /\ [][LiveNext]_vars
    /\ WF_vars(RefreshFetchCall)
    /\ WF_vars(RefreshTransform)
    /\ WF_vars(RefreshStats)
    /\ WF_vars(RefreshRender)
    /\ SF_vars(RefreshAcquire)
    /\ WF_vars(RefreshAssign)
    /\ WF_vars(RefreshRelease)
    /\ WF_vars(RefreshLog)
    /\ WF_vars(RefreshExcept)
    /\ WF_vars(RefreshSleep)
    /\ WF_vars(DoGetRead)
    /\ WF_vars(DoGetRelease)

\* LoopLiveSpec with, in addition, a remote API that answers every fetch it
\* is going to answer: the only fetch that does not return is one whose
\* remote side stays silent.
FetchLiveSpec ==
    /\ Init
    /\ [][LiveNext]_vars
    /\ WF_vars(LiveFetchReturn)
    /\ WF_vars(RefreshFetchCall)
    /\ WF_vars(RefreshTransform)
    /\ WF_vars(RefreshStats)
    /\ WF_vars(RefreshRender)
    /\ SF_vars(RefreshAcquire)
    /\ WF_vars(RefreshAssign)
    /\ WF_vars(RefreshRelease)
    /\ WF_vars(RefreshLog)
    /\ WF_vars(RefreshExcept)
    /\ WF_vars(RefreshSleep)
    /\ WF_vars(DoGetRead)
    /\ WF_vars(DoGetRelease)

\* Shutdown is requested: Ctrl-C raises KeyboardInterrupt in the main thread,
\* which is inside serve_forever. The exception leaves a with block it finds
\* itself in, releasing the lock, and ends the main thread. The refresh
\* thread is not told: its loop is `while True` and tests no flag.
Shutdown ==
    /\ main_pc \in {"accept", "route", "acquire", "read", "release",
                    "send_headers", "write"}
    /\ main_pc' = "exiting"
    /\ dashboard_html_lock' =
          IF dashboard_html_lock = "main" THEN "free" ELSE dashboard_html_lock
    /\ UNCHANGED <<dashboard_html, refresh_pc, now, locals, server_vars, history,
                   remote_silent, trace, runner_vars>>

\* The interpreter finalizes: the refresh thread is a daemon thread
\* (daemon=True) and ends with the process, wherever it is.
ProcessExit ==
    /\ main_pc = "exiting"
    /\ main_pc' = "exited"
    /\ refresh_pc' = "killed"
    /\ UNCHANGED <<dashboard_html, dashboard_html_lock, now, locals, server_vars,
                   history, remote_silent, trace, runner_vars>>

ShutdownNext == LiveNext \/ Shutdown \/ ProcessExit

\* The connector with a shutdown request at any moment of serving.
ShutdownSpec == Init /\ [][ShutdownNext]_vars

\* ------------------------------------------------------- proxy test runner
\* The runner is a program of its own: the connector's module is loaded
\* nowhere in it, so the connector's variables stay as they start.
connector_vars ==
    <<dashboard_html, dashboard_html_lock, main_pc, refresh_pc, now, locals,
      server_vars, history, remote_silent, trace>>

\* The runner's module starts to execute.
RunnerInit ==
    /\ ConnectorInit
    /\ runner_pc = "start"
    /\ PROXY_URL = NoneValue
    /\ PROXY_API_KEY = NoneValue
    /\ test_results = NoResults
    /\ tests_run = 0
    /\ printed = <<>>
    /\ exit_code = -1

\* PROXY_URL = os.getenv('PROXY_URL'); PROXY_API_KEY = os.getenv('PROXY_API_KEY')
RunnerGetenv ==
    /\ runner_pc = "start"
    /\ PROXY_URL' \in EnvValues
    /\ PROXY_API_KEY' \in EnvValues
    /\ runner_pc' = "check"
    /\ UNCHANGED <<test_results, tests_run, printed, exit_code, connector_vars>>

\* Variant: the test is `PROXY_URL is None or PROXY_API_KEY is None`.
RunnerCheckEnv_NoneOnly ==
    /\ runner_pc = "check"
    /\ IF PROXY_URL = NoneValue \/ PROXY_API_KEY = NoneValue
         THEN /\ printed' = Append(printed, Output("missing_env", NoResults))
              /\ exit_code' = 1
              /\ runner_pc' = "exited"
         ELSE /\ runner_pc' = "run"
              /\ UNCHANGED <<printed, exit_code>>
    /\ UNCHANGED <<PROXY_URL, PROXY_API_KEY, test_results, tests_run, connector_vars>>

\* if not PROXY_URL or not PROXY_API_KEY: print("Missing ..."); sys.exit(1)
RunnerCheckEnv ==
    /\ runner_pc = "check"
    /\ IF ~Truthy(PROXY_URL) \/ ~Truthy(PROXY_API_KEY)
         THEN /\ printed' = Append(printed, Output("missing_env", NoResults))
              /\ exit_code' = 1
              /\ runner_pc' = "exited"
         ELSE /\ runner_pc' = "run"
              /\ UNCHANGED <<printed, exit_code>>
    /\ UNCHANGED <<PROXY_URL, PROXY_API_KEY, test_results, tests_run, connector_vars>>

\* test_results = run_all_tests(PROXY_URL, PROXY_API_KEY)
RunnerRunTests ==
    /\ runner_pc = "run"
    /\ test_results' \in TestResults
    /\ tests_run' = tests_run + 1
    /\ runner_pc' = "print"
    /\ UNCHANGED <<PROXY_URL, PROXY_API_KEY, printed, exit_code, connector_vars>>

\* print_test_result(test_results)
RunnerPrint ==
    /\ runner_pc = "print"
    /\ printed' = Append(printed, Output("test_result", test_results))
    /\ runner_pc' = "exit"
    /\ UNCHANGED <<PROXY_URL, PROXY_API_KEY, test_results, tests_run, exit_code,
                   connector_vars>>

\* exit_code = 0 if test_results['success'] else 1; sys.exit(exit_code)
\* A dict without the key raises KeyError, which nothing catches: the
\* interpreter prints the traceback and exits with status 1.
RunnerExit ==
    /\ runner_pc = "exit"
    /\ exit_code' = IF test_results.has_success
                      THEN (IF Truthy(test_results.success) THEN 0 ELSE 1)
                      ELSE 1
    /\ runner_pc' = "exited"
    /\ UNCHANGED <<PROXY_URL, PROXY_API_KEY, test_results, tests_run, printed,
                   connector_vars>>

RunnerNext ==
    RunnerGetenv \/ RunnerCheckEnv \/ RunnerRunTests \/ RunnerPrint \/ RunnerExit

RunnerSpec == RunnerInit /\ [][RunnerNext]_vars

\* --------------------------------------------------------------- properties
Range(f) == {f[i] : i \in DOMAIN f}

\* dashboard_html right after the k-th publish (k = 0: before the first).
CacheAfterPublish(k) == IF k = 0 THEN StartupPlaceholder ELSE published[k]

\* C1: once a cycle with a successful fetch has published, a cycle whose fetch
\* fails leaves in the cache the artifact of the last cycle whose fetch
\* succeeded.
C1_StaleButAvailable ==
    (good_cycles > 0 /\ fetch_failed /\ refresh_pc = "sleep") => dashboard_html = last_good

\* C2: a cycle in which the transformation, the statistics or the rendering
\* raised publishes nothing and leaves the cache as it was when the cycle
\* started, and the step after the except clause is the interval sleep, as
\* it is after the success message.
C2_RaisedCycleKeepsCache ==
    /\ [](raised => /\ dashboard_html = cache_at_cycle_start
                    /\ refresh_pc \in {"except", "sleep", "fetch"})
    /\ [][(refresh_pc \in {"except", "log"} /\ refresh_pc' # refresh_pc)
            => (refresh_pc' = "sleep" /\ dashboard_html' = dashboard_html)]_vars

\* A second cycle raised after the first one published, and has reached the sleep.
C2_Witness ==
    /\ raised
    /\ refresh_pc = "sleep"
    /\ cycle = 2
    /\ Len(published) = 1
    /\ dashboard_html = published[1]

\* C3: what a handler has read, and what it has sent as the body of a
\* root-path response, is a placeholder or one of the artifacts handed to a
\* publish, whole.
WholeValues == {StartupPlaceholder, HandlerPlaceholder} \cup Range(published)

C3_NoPartialReads ==
    /\ (main_pc \in {"release", "send_headers", "write"} /\ reads[current] = 1)
          => content \in WholeValues
    /\ \A r \in Requests :
          (req_state[r] = "done" /\ reads[r] = 1)
              => \E v \in WholeValues : response[r].body = encode(v)

\* A handler reads between two publishes and is answered after the second.
C3_Witness ==
    /\ Len(published) = 2
    /\ published[1] # published[2]
    /\ \E r \in Requests :
          /\ req_state[r] = "done"
          /\ reads[r] = 1
          /\ response[r].body = encode(published[1])

\* C4: as long as no cycle has published after a successful fetch, the cache
\* holds no generated artifact and every answered root-path request got
\* status 200 and a placeholder document.
C4_InitialState ==
    good_cycles = 0 =>
        /\ dashboard_html \in {EmptyStr, StartupPlaceholder}
        /\ \A r \in Requests :
              (req_state[r] = "done" /\ req_path[r] \in {"/", "/index.html"})
                  => /\ response[r].status = 200
                     /\ response[r].body \in {encode(StartupPlaceholder),
                                              encode(HandlerPlaceholder)}

\* C5: an answered request has status 200, the HTML content type and the
\* cache value of the moment it read (the handler's placeholder for an empty
\* cache) exactly when its path is "/" or "/index.html"; any other path has
\* 404, the plain-text content type and the body "404 Not Found".
C5_PathRouting ==
    \A r \in Requests :
        req_state[r] = "done" =>
            IF req_path[r] \in {"/", "/index.html"}
              THEN /\ response[r].status = 200
                   /\ response[r].content_type = "text/html; charset=utf-8"
                   /\ response[r].body =
                        encode(PyOr(CacheAfterPublish(read_at[r]), HandlerPlaceholder))
              ELSE /\ response[r].status = 404
                   /\ response[r].content_type = "text/plain; charset=utf-8"
                   /\ response[r].body = encode(NotFoundText)

\* Both "/index.html" and a path that is no root path have been answered, the
\* former with a published dashboard.
C5_Witness ==
    \E r, q \in Requests :
        /\ req_state[r] = "done" /\ req_path[r] = "/index.html"
        /\ read_at[r] > 0
        /\ req_state[q] = "done" /\ req_path[q] = "/index.htm"

\* C6: while a handler is writing its response, a connection that waits can
\* be taken up.
C6_ConcurrentDispatch ==
    (main_pc = "write" /\ \E b \in Requests : req_state[b] = "pending")
        => ENABLED ServerAccept

\* C7: a handler that has started on a root-path request ends up having
\* sent its response, whatever the refresh thread is doing.
C7_ReadsNotStarved ==
    \A r \in Requests :
        (req_state[r] = "handling" /\ req_path[r] \in {"/", "/index.html"})
            ~> (req_state[r] = "done" /\ reads[r] = 1 /\ response[r].status = 200)

\* A root-path request was answered while the first fetch was still out.
C7_Witness ==
    /\ refresh_pc = "fetching"
    /\ cycle = 1
    /\ \E r \in Requests :
          /\ req_state[r] = "done"
          /\ req_path[r] = "/"
          /\ response[r].status = 200
          /\ response[r].body = encode(StartupPlaceholder)

\* C8: a handler reads the cache once for a root path and never for another
\* path, and holds the lock only around that read, never while it sends.
C8_OneReadNoLockWhileSending ==
    /\ dashboard_html_lock = "main" => main_pc \in {"read", "release"}
    /\ \A r \in Requests :
          /\ reads[r] <= 1
          /\ (req_state[r] = "done" \/ (r = current /\ main_pc \in {"send_headers", "write"}))
                => reads[r] = IF req_path[r] \in {"/", "/index.html"} THEN 1 ELSE 0

\* A handler is writing a root-path response while the refresh thread holds
\* the lock.
C8_Witness ==
    /\ main_pc = "write"
    /\ req_path[current] = "/"
    /\ reads[current] = 1
    /\ dashboard_html_lock = "refresh"

\* C9: the refresh thread holds the lock only at the assignment and at the
\* exit of the with block, and the artifact it is about to store was rendered
\* from the cycle's data before it asked for the lock.
C9_LockOnlyAroundSwap ==
    /\ dashboard_html_lock = "refresh" => refresh_pc \in {"assign", "release"}
    /\ refresh_pc \in {"acquire", "assign"} =>
          new_html = generate_dashboard_html(
              [videos |-> videos, api_usage |-> api_usage, last_updated |-> last_updated])

\* The refresh thread logs its second publish while a handler holds the lock.
C9_Witness ==
    /\ refresh_pc = "log"
    /\ cycle = 2
    /\ dashboard_html_lock = "main"

\* C10: while a reader is inside its cache read and no publish is going on,
\* another root-path request that waits can be taken up and read.
C10_ReadersDoNotBlock ==
    (/\ main_pc \in {"read", "release"}
     /\ refresh_pc \notin {"assign", "release"}
     /\ \E b \in Requests : req_state[b] = "pending" /\ req_path[b] \in {"/", "/index.html"})
        => \E b \in Requests : CanDispatch(b)

\* C11: the first cycle starts at time 0 with no sleep before it, the i-th
\* cycle starts after exactly i - 1 sleeps of the full interval, whatever
\* the earlier cycles ended in, and two consecutive publishes are at least
\* one interval apart.
C11_CycleCadence ==
    /\ \A i \in 1..Len(cycle_starts) :
          /\ cycle_starts[i].sleeps = i - 1
          /\ cycle_starts[i].at = (i - 1) * refresh_interval_seconds
    /\ \A i \in 1..(Len(publish_times) - 1) :
          publish_times[i + 1] - publish_times[i] >= refresh_interval_seconds
    /\ refresh_pc = "sleep" => sleeps = cycle - 1

\* Two cycles in a row have published, one interval apart, and the second
\* is about to sleep.
C11_Witness ==
    /\ publish_times = <<0, refresh_interval_seconds>>
    /\ refresh_pc = "sleep"
    /\ sleeps = 1

\* C12: the API has been called exactly once for every cycle started, so no
\* cycle calls it a second time, whatever the first call ended in.
C12_NoRetry ==
    /\ fetch_calls = cycle
    /\ fetch_calls = Len(cycle_starts)

\* The second cycle's fetch failed and the loop has gone on to the sleep.
C12_Witness ==
    /\ refresh_pc = "sleep"
    /\ fetch_failed
    /\ cycle = 2
    /\ fetch_calls = 2

\* C13: a cycle whose fetch ended in an exception, or that raised in the
\* transformation or the rendering, is followed by one sleep and the start of
\* the next cycle (as long as the model lets cycles start), and a cycle whose
\* fetch, transformation and rendering all succeed publishes.
C13_FailureDoesNotStopLoop ==
    /\ \A k \in 1..(MaxCycles - 1) :
          (/\ cycle = k
           /\ \/ refresh_pc = "except"
              \/ refresh_pc = "transform" /\ fetch_failed)
              ~> (cycle = k + 1 /\ sleeps = k)
    /\ \A n \in 0..(MaxCycles - 1) :
          (/\ refresh_pc = "transform"
           /\ ~fetch_failed
           /\ ~TransformRaises(api_videos)
           /\ ~RenderRaises(transform_video_data(api_videos))
           /\ Len(published) = n)
              ~> (Len(published) = n + 1)

\* The first cycle raised and published nothing; the second has published.
C13_Witness ==
    /\ cycle = 2
    /\ refresh_pc = "log"
    /\ ~fetch_failed
    /\ Len(published) = 1
    /\ publish_times = <<refresh_interval_seconds>>

\* C14: every refresh cycle that enters the fetch leaves it and reaches the
\* interval sleep, also when the remote side never responds.
C14_FetchIsBounded == (refresh_pc = "fetching") ~> (refresh_pc = "sleep")

\* What the code does give: a fetch whose remote side responds, with data or
\* with an error, is followed by the interval sleep.
C14_AnsweredFetchEnds ==
    (refresh_pc = "fetching" /\ ~remote_silent) ~> (refresh_pc = "sleep")

\* The artifact the render step makes of the data returned by the fetch.
ArtifactOf(fetched, at) ==
    generate_dashboard_html(
        [videos |-> transform_video_data(fetched),
         api_usage |-> compute_api_usage_stats(transform_video_data(fetched)),
         last_updated |-> at])

\* C15: when a cycle has published, its own fetch and then its own render
\* completed successfully, and the cache holds exactly the artifact rendered
\* in this cycle from the data fetched in this cycle.
C15_PublishOrdering ==
    refresh_pc = "release" =>
        /\ ~fetch_failed
        /\ fetched_in = cycle
        /\ rendered_in = cycle
        /\ dashboard_html = new_html
        /\ published[Len(published)] = new_html
        /\ new_html = ArtifactOf(api_videos, last_updated)

\* What the code does give: the same ordering, with "the fetch returned" in
\* place of "the fetch completed successfully".
C15_OrderingOfSteps ==
    refresh_pc = "release" =>
        /\ fetched_in = cycle
        /\ rendered_in = cycle
        /\ dashboard_html = new_html
        /\ published[Len(published)] = new_html
        /\ new_html = ArtifactOf(api_videos, last_updated)

\* The main thread is inside serve_forever: accepting, or in a handler.
Serving == main_pc \in {"accept", "route", "acquire", "read", "release",
                        "send_headers", "write"}

\* C16: the refresh thread is started once; from then on the cache changes
\* only in the refresh loop's assignment, to the value the loop rendered, and
\* no step of the server (accepting a request, handling a root path or any
\* other path) changes it.
C16_SingleWriter ==
    /\ [](/\ threads_started <= 1
          /\ (refresh_pc # "unstarted") <=> (threads_started = 1))
    /\ [][(refresh_pc # "unstarted" /\ dashboard_html' # dashboard_html)
            => /\ refresh_pc = "assign"
               /\ refresh_pc' = "release"
               /\ dashboard_html' = new_html]_vars
    /\ [][(Serving /\ (main_pc' # main_pc \/ req_state' # req_state))
            => dashboard_html' = dashboard_html]_vars

\* A root path and another path have been answered after a publish, and the
\* cache still holds what the loop published.
C16_Witness ==
    /\ threads_started = 1
    /\ Len(published) = 1
    /\ \E r, q \in Requests :
          /\ req_state[r] = "done" /\ IsRootPath(req_path[r]) /\ read_at[r] = 1
          /\ req_state[q] = "done" /\ ~IsRootPath(req_path[q])
    /\ dashboard_html = published[1]

\* C17: once shutdown has been requested the refresh thread starts no cycle
\* and publishes nothing.
C17_CancellableLoop ==
    [][(main_pc \in {"exiting", "exited"})
         => (cycle' = cycle /\ published' = published)]_vars

\* What the code does give: nothing happens in the refresh thread once the
\* process has ended.
C17_NothingAfterExit ==
    [][(main_pc = "exited")
         => (cycle' = cycle /\ published' = published /\ refresh_pc' = refresh_pc)]_vars

\* The documents that are not a generated dashboard.
Placeholders == {EmptyStr, StartupPlaceholder, HandlerPlaceholder}

\* C18: the cache is not empty once the refresh thread has been started; no
\* publish stores an empty value or a placeholder; after the first publish
\* the cache holds the artifact of the most recent publish, and a root-path
\* request that read the cache after the first publish has not been given a
\* placeholder document.
C18_NeverRevertsToEmpty ==
    /\ refresh_pc # "unstarted" => dashboard_html # EmptyStr
    /\ \A i \in 1..Len(published) : published[i] \notin Placeholders
    /\ Len(published) > 0 => dashboard_html = published[Len(published)]
    /\ (main_pc \in {"release", "send_headers", "write"} /\ reads[current] = 1
            /\ read_at[current] > 0)
          => content \notin Placeholders
    /\ \A r \in Requests :
          (req_state[r] = "done" /\ reads[r] = 1 /\ read_at[r] > 0)
              => \A p \in Placeholders : response[r].body # encode(p)

\* The second publish followed a failed fetch and stored a dashboard without
\* videos; a request that read after it was answered with that dashboard.
C18_Witness ==
    /\ Len(published) = 2
    /\ fetch_failed
    /\ published[2].rows = <<>>
    /\ \E r \in Requests :
          /\ req_state[r] = "done"
          /\ read_at[r] = 2
          /\ response[r].body = encode(published[2])

\* C19: a handler that entered its with block after publish k had released
\* the lock reads the artifact of publish k or of a later one, namely the
\* artifact of the last publish before its read, and that is what it sends;
\* of two requests the later one is answered with the artifact of the same
\* or of a later publish.
C19_ReadsAreFresh ==
    /\ (main_pc = "release" /\ reads[current] = 1)
          => /\ read_at[current] >= begin_released
             /\ content = CacheAfterPublish(read_at[current])
    /\ \A r \in Requests :
          (req_state[r] = "done" /\ reads[r] = 1)
              => response[r].body = encode(CacheAfterPublish(read_at[r]))
    /\ \A r, q \in Requests :
          (r < q /\ reads[r] = 1 /\ reads[q] = 1) => read_at[r] <= read_at[q]

\* One client: answered with the first dashboard, then, having started its
\* next request after the second publish released the lock, with the second.
C19_Witness ==
    /\ Len(published) = 2
    /\ published[1] # published[2]
    /\ req_state = <<"done", "handling">>
    /\ response[1].body = encode(published[1])
    /\ main_pc = "release"
    /\ begin_released = 2
    /\ content = published[2]

\* The values of an environment variable that count as missing.
UnsetOrEmpty == {NoneValue, PyValue("str", "")}

\* The values under 'success' that Python takes for false.
FalsyResults ==
    { PyValue("bool", "False"), PyValue("int", "0"), PyValue("str", ""),
      PyValue("list", "[]"), NoneValue }

\* C20: the runner runs the test suite at most once; when it has exited,
\* either PROXY_URL or PROXY_API_KEY was unset or empty, no test ran, only the
\* message was printed and the status is 1, or both were set, the suite ran
\* once, its result was printed once and the status is 0 exactly when the
\* result has a 'success' field whose value is true for Python, and 1
\* otherwise.
C20_RunnerExitStatus ==
    /\ tests_run <= 1
    /\ runner_pc = "exited" =>
          IF PROXY_URL \in UnsetOrEmpty \/ PROXY_API_KEY \in UnsetOrEmpty
            THEN /\ exit_code = 1
                 /\ tests_run = 0
                 /\ printed = <<Output("missing_env", NoResults)>>
            ELSE /\ tests_run = 1
                 /\ printed = <<Output("test_result", test_results)>>
                 /\ exit_code \in {0, 1}
                 /\ (exit_code = 0) <=>
                       (/\ test_results.has_success
                        /\ test_results.success \notin FalsyResults)

\* The key is set and the URL is the empty string: the runner has exited
\* with status 1 and ran nothing.
C20_Witness ==
    /\ runner_pc = "exited"
    /\ PROXY_URL = PyValue("str", "")
    /\ PROXY_API_KEY = PyValue("str", "secret")
    /\ exit_code = 1
    /\ tests_run = 0

====
